---- MODULE Spec2Model ----
(***************************************************************************)
(* Model of the place-search application: the PlacesSearch component       *)
(* (debounced autocomplete, recent searches kept in AsyncStorage under the *)
(* key 'searchHistory') and the MapScreen that hosts it (selected place,   *)
(* its own copy of the search history, place-detail requests).             *)
(*                                                                         *)
(* All of it runs on one JavaScript event loop: an action of the model is  *)
(* one run-to-completion piece of a handler, from an event or the          *)
(* resolution of an awaited promise to the next await.                     *)
(* AsyncStorage requests are served one at a time in the order issued.     *)
(***************************************************************************)
EXTENDS Integers, Sequences, FiniteSets, TLC

----------------------------------------------------------------------------
(* Bounds of the model *)

MaxTextLen == 2      \* longest text typed into the input
MaxLookups == 2      \* autocomplete requests issued in one behaviour
MaxSelects == 2      \* selections made in one behaviour
MaxQueue == 3        \* AsyncStorage requests pending when a focus adds a load
TickMs == 100        \* granularity of the passage of time
MaxTapIndex == 2     \* the user taps one of the first items of a section

(* Constants of the program *)

DebounceMs == 300    \* setTimeout(fetchPredictions, 300)
BlurMs == 200        \* setTimeout(..., 200) in onBlur
MinQueryLen == 2     \* searchText.length < 2
HistoryCap == 10     \* slice(0, 10)

----------------------------------------------------------------------------
(* Text: sequences of characters *)

Chars == {"a", " "}

Texts == UNION {[1..n -> Chars] : n \in 0..MaxTextLen}

IsSpace(c) == c = " "

RECURSIVE TrimStart(_)
TrimStart(s) ==
    IF Len(s) > 0 /\ IsSpace(Head(s)) THEN TrimStart(Tail(s)) ELSE s

RECURSIVE TrimEnd(_)
TrimEnd(s) ==
    IF Len(s) > 0 /\ IsSpace(s[Len(s)]) THEN TrimEnd(SubSeq(s, 1, Len(s) - 1)) ELSE s

\* String.prototype.trim
Trim(s) == TrimEnd(TrimStart(s))

\* a toLowerCase that leaves every character as it is
LowerCharId(c) == c

\* String.prototype.toLowerCase, character by character
LowerChar(c) ==
    CASE c = "A" -> "a"
      [] c = "B" -> "b"
      [] c = "C" -> "c"
      [] OTHER -> c

ToLowerCase(s) == [i \in 1..Len(s) |-> LowerChar(s[i])]

\* String.prototype.includes
Includes(hay, needle) ==
    \E i \in 0..(Len(hay) - Len(needle)) : SubSeq(hay, i + 1, i + Len(needle)) = needle

----------------------------------------------------------------------------
(* Places *)

NumPlaces == HistoryCap + 1

PlaceIds == 1..NumPlaces

\* display text the remote endpoint returns for a place
MainTextOf(i) == IF i % 2 = 1 THEN <<"A">> ELSE <<"B", "a">>

SecondaryTextOf(i) == IF i % 3 = 0 THEN <<>> ELSE <<"C">>

\* one element of response.data.suggestions; hasPlace is false for an
\* entry without a placePrediction
Suggestion(i) ==
    [hasPlace |-> TRUE, placeId |-> i, mainText |-> MainTextOf(i),
     secondaryText |-> SecondaryTextOf(i)]

QuerySuggestion ==
    [hasPlace |-> FALSE, placeId |-> 0, mainText |-> <<>>, secondaryText |-> <<>>]

\* the Place built from a suggestion
TransformOne(s) ==
    [place_id |-> s.placeId,
     description |-> s.mainText \o
        (IF Len(s.secondaryText) > 0 THEN <<" ", "-", " ">> \o s.secondaryText ELSE <<>>),
     main_text |-> s.mainText,
     secondary_text |-> s.secondaryText]

\* response.data.suggestions.filter(...).map(...)
TransformPredictions(suggestions) ==
    LET kept == SelectSeq(suggestions, LAMBDA s : s.hasPlace)
    IN  [i \in 1..Len(kept) |-> TransformOne(kept[i])]

PlaceOf(i) == TransformOne(Suggestion(i))

NoPlace == [place_id |-> 0, description |-> <<>>, main_text |-> <<>>, secondary_text |-> <<>>]

\* bodies the autocomplete endpoint may answer with
Responses ==
    { <<>>,
      <<Suggestion(1)>>,
      <<QuerySuggestion, Suggestion(2), Suggestion(NumPlaces)>> }

----------------------------------------------------------------------------
(* The persisted slot: the string stored under 'searchHistory' *)

NullItem == [kind |-> "null", val |-> <<>>]

\* JSON.stringify of a list of places
Stringify(list) == [kind |-> "json", val |-> list]

\* a stored string is truthy when present
Truthy(item) == item.kind # "null"

\* JSON.parse throws on a string that is not JSON
ParseThrows(item) == item.kind # "json"

JsonParse(item) == item.val

\* filter(p => p.place_id !== place.place_id)
WithoutId(list, id) == SelectSeq(list, LAMBDA p : p.place_id # id)

\* a slice that keeps every entry
SliceAll(list, n) == list

\* slice(0, n)
Slice0(list, n) == SubSeq(list, 1, IF Len(list) < n THEN Len(list) ELSE n)

\* the list saveToRecentSearches builds from what it read
PsNewHistory(history, place) ==
    Slice0(<<place>> \o WithoutId(history, place.place_id), HistoryCap)

\* the list saveSearchHistory builds from MapScreen's state
MapNewHistory(history, place) ==
    Slice0(<<place>> \o history, HistoryCap)

NoDuplicates(list) ==
    \A i, j \in 1..Len(list) : i # j => list[i].place_id # list[j].place_id

\* persisted lists a previous run of the program may have left
OneList == <<PlaceOf(1)>>

FullList == [i \in 1..HistoryCap |-> PlaceOf(i)]

\* a value of the slot that JSON.parse rejects
BadItem == [kind |-> "text", val |-> <<>>]

InitialSlots == {NullItem, BadItem, Stringify(OneList), Stringify(FullList)}

\* what a load makes of the slot: the parsed list, or no list at all
Loaded(item) == IF Truthy(item) /\ ~ParseThrows(item) THEN JsonParse(item) ELSE <<>>

----------------------------------------------------------------------------
(* State *)

VARIABLES
    \* PlacesSearch: useState
    searchText, predictions, loading, recentSearches, isInputFocused, userLocation,
    \* PlacesSearch: the input widget, pending timers, requests in flight (an
    \* autocomplete request is its number in the order of issue; what follows its
    \* await uses the response only)
    inputFocused, debounceTimers, blurTimers, lookups, psLocation,
    \* AsyncStorage: the 'searchHistory' slot and the requests not yet served
    slot, storageQ,
    \* MapScreen: useState, requests in flight
    selectedPlace, searchHistory, region, detailReqs, mapLocation,
    \* history variables used to state properties (lastInput is the input field
    \* of the request sent last, superseded the requests in flight that were
    \* followed by a request for another text, discarded the requests that were
    \* in flight at the last selection or clear, lastSelected the place selected
    \* last, ioFailed the gravest AsyncStorage failure so far)
    nextReq, lastInput, superseded, discarded, sinceEdit, rapidEdit, callsSinceEdit, locSinceEdit,
    nSelects, nCallbacks, lastSelected, nWrites, lastWriter, lastAppend, ioFailed, ev

psVars == <<searchText, predictions, loading, recentSearches, isInputFocused, userLocation>>
ioVars == <<inputFocused, debounceTimers, blurTimers, lookups, psLocation>>
stVars == <<slot, storageQ>>
mapVars == <<selectedPlace, searchHistory, region, detailReqs, mapLocation>>
histVars == <<nextReq, lastInput, superseded, discarded, sinceEdit, rapidEdit, callsSinceEdit,
              locSinceEdit, nSelects, nCallbacks, lastSelected, nWrites, lastWriter, lastAppend,
              ioFailed>>

vars == <<psVars, ioVars, stVars, mapVars, histVars, ev>>

\* region tokens: the hard-coded initial region, the device location, and
\* the coordinate the detail endpoint returns for a place
RegionDefault == 0
RegionUser == 1
NoLoc == 0
LocOf(id) == 100 + id

\* an AsyncStorage request: getItem or setItem, with what the awaiting
\* function holds in its locals (place, the list it built) and, for setItem,
\* the string passed
GetReq(by, place) ==
    [op |-> "get", by |-> by, place |-> place, list |-> <<>>, val |-> NullItem]

\* a setItem that passes the list as it was before the place was added
SetReqStale(by, place, list) ==
    [op |-> "set", by |-> by, place |-> place, list |-> list, val |-> Stringify(Tail(list))]

SetReq(by, place, list) ==
    [op |-> "set", by |-> by, place |-> place, list |-> list, val |-> Stringify(list)]

\* the last step taken when it was the completion of a request, a selection,
\* a clear or the blur timer, and the place it was about; "step" otherwise
Ev(kind) == [kind |-> kind, place |-> NoPlace]
EvP(kind, place) == [kind |-> kind, place |-> place]

\* setTimeout(fetchPredictions, 300): the closure holds the text of its render
NewDebounceTimer(text) == [text |-> text, left |-> DebounceMs, cur |-> TRUE]

\* an effect without the cleanup: the previous timer stays pending
RearmDebounceNoClear(timers, text) ==
    {[t EXCEPT !.cur = FALSE] : t \in timers} \cup {NewDebounceTimer(text)}

\* the effect's cleanup followed by its next run: clearTimeout(debounceTimer)
\* of the previous run, then a new timer
RearmDebounce(timers, text) ==
    {t \in timers : ~t.cur} \cup {NewDebounceTimer(text)}

\* mount: both components' effects have run; nothing has resolved yet
Init ==
    /\ searchText = <<>>
    /\ predictions = <<>>
    /\ loading = FALSE
    /\ recentSearches = <<>>
    /\ isInputFocused = FALSE
    /\ userLocation = NoLoc
    /\ inputFocused = FALSE
    /\ debounceTimers = {NewDebounceTimer(<<>>)}
    /\ blurTimers = {}
    /\ lookups = {}
    /\ psLocation = "pending"
    /\ slot \in InitialSlots
    /\ storageQ = <<GetReq("psLoad", NoPlace), GetReq("mapLoad", NoPlace)>>
    /\ selectedPlace = [place |-> NoPlace, loc |-> NoLoc]
    /\ searchHistory = <<>>
    /\ region = RegionDefault
    /\ detailReqs = {}
    /\ mapLocation = "pending"
    /\ nextReq = 1
    /\ lastInput = <<>>
    /\ superseded = {}
    /\ discarded = {}
    /\ sinceEdit = DebounceMs
    /\ rapidEdit = FALSE
    /\ callsSinceEdit = 0
    /\ locSinceEdit = FALSE
    /\ nSelects = 0
    /\ nCallbacks = 0
    /\ lastSelected = NoPlace
    /\ nWrites = 0
    /\ lastWriter = "none"
    /\ lastAppend = <<>>
    /\ ioFailed = "none"
    /\ ev = Ev("mount")

----------------------------------------------------------------------------
(* Derived render values *)

Range(seq) == {seq[i] : i \in 1..Len(seq)}

filteredRecentSearches ==
    SelectSeq(recentSearches, LAMBDA place :
        \/ Len(searchText) = 0
        \/ Includes(ToLowerCase(place.main_text), ToLowerCase(searchText))
        \/ Includes(ToLowerCase(place.secondary_text), ToLowerCase(searchText)))

showSuggestions ==
    isInputFocused /\ (Len(filteredRecentSearches) > 0 \/ Len(predictions) > 0)

----------------------------------------------------------------------------
(* PlacesSearch: text, timers, autocomplete *)

Min(a, b) == IF a < b THEN a ELSE b
Max(a, b) == IF a > b THEN a ELSE b

\* Keyboard.dismiss() / inputRef.blur(): a focused input loses focus and its
\* onBlur runs, which starts the 200 ms timer
BlurInput(focused, timers) == IF focused THEN timers \cup {BlurMs} ELSE timers

\* the user types a character or deletes the last one
TypedTexts(text) ==
    {Append(text, c) : c \in IF Len(text) < MaxTextLen THEN Chars ELSE {}}
    \cup (IF Len(text) > 0 THEN {SubSeq(text, 1, Len(text) - 1)} ELSE {})

\* onChangeText={handleTextChange}, then the effect of the new render
handleTextChange(text) ==
    /\ inputFocused
    /\ text # searchText
    /\ searchText' = text
    /\ IF Len(text) = 0
         THEN /\ predictions' = <<>>
              /\ isInputFocused' = FALSE
         ELSE /\ isInputFocused' = TRUE
              /\ UNCHANGED predictions
    /\ debounceTimers' = RearmDebounce(debounceTimers, text)
    /\ sinceEdit' = 0
    /\ rapidEdit' = (sinceEdit < DebounceMs)
    /\ callsSinceEdit' = 0
    /\ locSinceEdit' = FALSE
    /\ ev' = Ev("step")
    /\ UNCHANGED <<loading, recentSearches, userLocation>>
    /\ UNCHANGED <<inputFocused, blurTimers, lookups, psLocation>>
    /\ UNCHANGED <<stVars, mapVars>>
    /\ UNCHANGED <<nextReq, lastInput, superseded, discarded, nSelects, nCallbacks,
                   lastSelected, nWrites, lastWriter, lastAppend, ioFailed>>

TextChange == \E text \in TypedTexts(searchText) : handleTextChange(text)

\* time passes: every pending timer comes TickMs closer to its expiry
Tick ==
    /\ debounceTimers' = {[t EXCEPT !.left = Max(0, t.left - TickMs)] : t \in debounceTimers}
    /\ blurTimers' = {Max(0, t - TickMs) : t \in blurTimers}
    /\ sinceEdit' = Min(DebounceMs, sinceEdit + TickMs)
    /\ ev' = Ev("step")
    /\ UNCHANGED <<psVars, stVars, mapVars>>
    /\ UNCHANGED <<inputFocused, lookups, psLocation>>
    /\ UNCHANGED <<nextReq, lastInput, superseded, discarded, rapidEdit, callsSinceEdit,
                   locSinceEdit,
                   nSelects, nCallbacks, lastSelected, nWrites, lastWriter, lastAppend, ioFailed>>

\* the debounce timer t expires and fetchPredictions runs up to its await
fetchPredictions(t) ==
    /\ t.left = 0
    /\ debounceTimers' = debounceTimers \ {t}
    /\ IF Len(t.text) < MinQueryLen
         THEN /\ predictions' = <<>>
              /\ ev' = Ev("step")
              /\ UNCHANGED <<loading, lookups, nextReq, lastInput, superseded, callsSinceEdit>>
         ELSE /\ nextReq <= MaxLookups
              /\ loading' = TRUE
              /\ lookups' = lookups \cup {nextReq}
              /\ lastInput' = t.text
              /\ superseded' = IF t.text # lastInput THEN lookups ELSE superseded
              /\ nextReq' = nextReq + 1
              /\ callsSinceEdit' = callsSinceEdit + 1
              /\ ev' = Ev("step")
              /\ UNCHANGED predictions
    /\ UNCHANGED <<searchText, recentSearches, isInputFocused, userLocation>>
    /\ UNCHANGED <<inputFocused, blurTimers, psLocation>>
    /\ UNCHANGED <<stVars, mapVars>>
    /\ UNCHANGED <<discarded, sinceEdit, rapidEdit, locSinceEdit, nSelects, nCallbacks,
                   lastSelected, nWrites,
                   lastWriter, lastAppend, ioFailed>>

DebounceFire == \E t \in debounceTimers : fetchPredictions(t)

\* axios.post resolves for request r with body resp
LookupSucceed(r, resp) ==
    /\ lookups' = lookups \ {r}
    /\ superseded' = superseded \ {r}
    /\ discarded' = discarded \ {r}
    /\ predictions' = TransformPredictions(resp)
    /\ loading' = FALSE
    /\ ev' = Ev("lookupOk")
    /\ UNCHANGED <<searchText, recentSearches, isInputFocused, userLocation>>
    /\ UNCHANGED <<inputFocused, debounceTimers, blurTimers, psLocation>>
    /\ UNCHANGED <<stVars, mapVars>>
    /\ UNCHANGED <<nextReq, lastInput, sinceEdit, rapidEdit, callsSinceEdit, locSinceEdit,
                   nSelects, nCallbacks, lastSelected, nWrites, lastWriter, lastAppend, ioFailed>>

\* a catch block that also empties the list
LookupFailClears(r) ==
    /\ lookups' = lookups \ {r}
    /\ superseded' = superseded \ {r}
    /\ discarded' = discarded \ {r}
    /\ loading' = FALSE
    /\ predictions' = <<>>
    /\ ev' = Ev("lookupFail")
    /\ UNCHANGED <<searchText, recentSearches, isInputFocused, userLocation>>
    /\ UNCHANGED <<inputFocused, debounceTimers, blurTimers, psLocation>>
    /\ UNCHANGED <<stVars, mapVars>>
    /\ UNCHANGED <<nextReq, lastInput, sinceEdit, rapidEdit, callsSinceEdit, locSinceEdit,
                   nSelects, nCallbacks, lastSelected, nWrites, lastWriter, lastAppend, ioFailed>>

\* axios.post rejects for request r (or the body has no suggestions)
LookupFail(r) ==
    /\ lookups' = lookups \ {r}
    /\ superseded' = superseded \ {r}
    /\ discarded' = discarded \ {r}
    /\ loading' = FALSE
    /\ ev' = Ev("lookupFail")
    /\ UNCHANGED <<searchText, predictions, recentSearches, isInputFocused, userLocation>>
    /\ UNCHANGED <<inputFocused, debounceTimers, blurTimers, psLocation>>
    /\ UNCHANGED <<stVars, mapVars>>
    /\ UNCHANGED <<nextReq, lastInput, sinceEdit, rapidEdit, callsSinceEdit, locSinceEdit,
                   nSelects, nCallbacks, lastSelected, nWrites, lastWriter, lastAppend, ioFailed>>

LookupResolve == \E r \in lookups : \E resp \in Responses : LookupSucceed(r, resp)

LookupReject == \E r \in lookups : LookupFail(r)

\* PlacesSearch.getUserLocation obtains a position: setUserLocation, and the
\* debounce effect runs again because userLocation is one of its dependencies
PsLocationFix ==
    /\ psLocation = "pending"
    /\ psLocation' = "done"
    /\ userLocation' = RegionUser
    /\ debounceTimers' = RearmDebounce(debounceTimers, searchText)
    /\ locSinceEdit' = TRUE
    /\ ev' = Ev("step")
    /\ UNCHANGED <<searchText, predictions, loading, recentSearches, isInputFocused>>
    /\ UNCHANGED <<inputFocused, blurTimers, lookups>>
    /\ UNCHANGED <<stVars, mapVars>>
    /\ UNCHANGED <<nextReq, lastInput, superseded, discarded, sinceEdit, rapidEdit, callsSinceEdit,
                   nSelects, nCallbacks, lastSelected, nWrites, lastWriter, lastAppend, ioFailed>>

\* permission denied, or the position request throws
PsLocationNone ==
    /\ psLocation = "pending"
    /\ psLocation' = "done"
    /\ ev' = Ev("step")
    /\ UNCHANGED <<psVars, stVars, mapVars, histVars>>
    /\ UNCHANGED <<inputFocused, debounceTimers, blurTimers, lookups>>

\* onFocus
Focus ==
    /\ ~inputFocused
    /\ inputFocused' = TRUE
    /\ isInputFocused' = TRUE
    /\ IF Len(searchText) = 0
         THEN /\ Len(storageQ) < MaxQueue
              /\ storageQ' = Append(storageQ, GetReq("psLoad", NoPlace))
         ELSE UNCHANGED storageQ
    /\ ev' = Ev("step")
    /\ UNCHANGED <<searchText, predictions, loading, recentSearches, userLocation>>
    /\ UNCHANGED <<debounceTimers, blurTimers, lookups, psLocation>>
    /\ UNCHANGED <<slot, mapVars, histVars>>

\* onBlur
Blur ==
    /\ inputFocused
    /\ inputFocused' = FALSE
    /\ blurTimers' = blurTimers \cup {BlurMs}
    /\ ev' = Ev("step")
    /\ UNCHANGED <<psVars, stVars, mapVars, histVars>>
    /\ UNCHANGED <<debounceTimers, lookups, psLocation>>

\* the callback of onBlur's timer
BlurFire ==
    /\ 0 \in blurTimers
    /\ blurTimers' = blurTimers \ {0}
    /\ isInputFocused' = FALSE
    /\ ev' = Ev("blurFire")
    /\ UNCHANGED <<searchText, predictions, loading, recentSearches, userLocation>>
    /\ UNCHANGED <<inputFocused, debounceTimers, lookups, psLocation>>
    /\ UNCHANGED <<stVars, mapVars, histVars>>

\* a clear that leaves the suggestion list as it is
handleClearKeepsList ==
    /\ Len(searchText) > 0
    /\ searchText' = <<>>
    /\ isInputFocused' = FALSE
    /\ inputFocused' = FALSE
    /\ blurTimers' = BlurInput(inputFocused, blurTimers)
    /\ debounceTimers' = RearmDebounce(debounceTimers, <<>>)
    /\ sinceEdit' = 0
    /\ rapidEdit' = FALSE
    /\ callsSinceEdit' = 0
    /\ locSinceEdit' = FALSE
    /\ discarded' = lookups
    /\ ev' = Ev("clear")
    /\ UNCHANGED <<predictions, loading, recentSearches, userLocation>>
    /\ UNCHANGED <<lookups, psLocation>>
    /\ UNCHANGED <<stVars, mapVars>>
    /\ UNCHANGED <<nextReq, lastInput, superseded, nSelects, nCallbacks, lastSelected, nWrites,
                   lastWriter, lastAppend, ioFailed>>

\* handleClear, offered while the text is not empty
handleClear ==
    /\ Len(searchText) > 0
    /\ searchText' = <<>>
    /\ predictions' = <<>>
    /\ isInputFocused' = FALSE
    /\ inputFocused' = FALSE
    /\ blurTimers' = BlurInput(inputFocused, blurTimers)
    /\ debounceTimers' = RearmDebounce(debounceTimers, <<>>)
    /\ sinceEdit' = 0
    /\ rapidEdit' = FALSE
    /\ callsSinceEdit' = 0
    /\ locSinceEdit' = FALSE
    /\ discarded' = lookups
    /\ ev' = Ev("clear")
    /\ UNCHANGED <<loading, recentSearches, userLocation>>
    /\ UNCHANGED <<lookups, psLocation>>
    /\ UNCHANGED <<stVars, mapVars>>
    /\ UNCHANGED <<nextReq, lastInput, superseded, nSelects, nCallbacks, lastSelected, nWrites,
                   lastWriter, lastAppend, ioFailed>>

----------------------------------------------------------------------------
(* Selection *)

\* the coordinate of the <Marker>: none while no place is selected, the
\* location of the selected place when it has one, the region otherwise
NoMarker == -1
Marker ==
    IF selectedPlace.place = NoPlace THEN NoMarker
    ELSE IF selectedPlace.loc # NoLoc THEN selectedPlace.loc ELSE region

\* MapScreen.handlePlaceSelect up to its await: setSelectedPlace, the start of
\* saveSearchHistory (whose setItem is added to the queue by the caller
\* below) and the detail request, which remembers the marker that was shown
\* when the selection was made
onPlaceSelect(place) ==
    /\ selectedPlace' = [place |-> place, loc |-> NoLoc]
    /\ detailReqs' =
         detailReqs \cup {[id |-> nSelects + 1, place |-> place, marker |-> Marker]}
    /\ nCallbacks' = nCallbacks + 1
    /\ UNCHANGED <<searchHistory, region, mapLocation>>

\* saveSearchHistory up to its await
saveSearchHistory(place) == SetReq("mapSave", place, MapNewHistory(searchHistory, place))

\* saveToRecentSearches up to its first await
saveToRecentSearches(place) == GetReq("psSave", place)

\* the items of the dropdown the user may tap
Offered ==
    IF showSuggestions
      THEN Range(Slice0(filteredRecentSearches, MaxTapIndex))
           \cup Range(Slice0(predictions, MaxTapIndex))
      ELSE {}

\* PlacesSearch.handlePlaceSelect up to its await
handlePlaceSelect(place) ==
    /\ nSelects < MaxSelects
    /\ onPlaceSelect(place)
    /\ searchText' = <<>>
    /\ predictions' = <<>>
    /\ isInputFocused' = FALSE
    /\ inputFocused' = FALSE
    /\ blurTimers' = BlurInput(inputFocused, blurTimers)
    /\ storageQ' = storageQ \o <<saveSearchHistory(place), saveToRecentSearches(place)>>
    /\ nWrites' = nWrites + 1
    /\ nSelects' = nSelects + 1
    /\ IF Len(searchText) > 0
         THEN /\ debounceTimers' = RearmDebounce(debounceTimers, <<>>)
              /\ sinceEdit' = 0
              /\ rapidEdit' = FALSE
              /\ callsSinceEdit' = 0
              /\ locSinceEdit' = FALSE
         ELSE UNCHANGED <<debounceTimers, sinceEdit, rapidEdit, callsSinceEdit, locSinceEdit>>
    /\ discarded' = lookups
    /\ lastSelected' = place
    /\ ev' = EvP("select", place)
    /\ UNCHANGED <<loading, recentSearches, userLocation>>
    /\ UNCHANGED <<lookups, psLocation, slot>>
    /\ UNCHANGED <<nextReq, lastInput, superseded, lastWriter, lastAppend, ioFailed>>

Select == \E place \in Offered : handlePlaceSelect(place)

----------------------------------------------------------------------------
(* AsyncStorage serves the request at the head of its queue *)

\* a load that drops what it read
PsLoadDoneIgnores(item) ==
    /\ recentSearches' = recentSearches
    /\ storageQ' = Tail(storageQ)
    /\ ev' = Ev("psLoadOk")
    /\ UNCHANGED <<searchHistory, slot, nWrites, lastWriter, lastAppend, ioFailed>>

\* loadRecentSearches after its await
PsLoadDone(item) ==
    /\ recentSearches' =
         IF Truthy(item) /\ ~ParseThrows(item) THEN JsonParse(item) ELSE recentSearches
    /\ storageQ' = Tail(storageQ)
    /\ ev' = Ev("psLoadOk")
    /\ UNCHANGED <<searchHistory, slot, nWrites, lastWriter, lastAppend, ioFailed>>

\* loadSearchHistory after its await
MapLoadDone(item) ==
    /\ searchHistory' =
         IF Truthy(item) /\ ~ParseThrows(item) THEN JsonParse(item) ELSE searchHistory
    /\ storageQ' = Tail(storageQ)
    /\ ev' = Ev("mapLoadOk")
    /\ UNCHANGED <<recentSearches, slot, nWrites, lastWriter, lastAppend, ioFailed>>

\* saveToRecentSearches between its two awaits
PsSaveRead(item, place) ==
    /\ IF Truthy(item) /\ ParseThrows(item)
         THEN /\ storageQ' = Tail(storageQ)
              /\ ev' = EvP("psSaveReadThrow", place)
              /\ UNCHANGED nWrites
         ELSE /\ storageQ' = Append(Tail(storageQ),
                    SetReq("psSave", place,
                        PsNewHistory(IF Truthy(item) THEN JsonParse(item) ELSE <<>>, place)))
              /\ ev' = EvP("psSaveReadOk", place)
              /\ nWrites' = nWrites + 1
    /\ UNCHANGED <<recentSearches, searchHistory, slot, lastWriter, lastAppend, ioFailed>>

\* saveToRecentSearches after its second await
PsSaveWritten(req) ==
    /\ slot' = req.val
    /\ recentSearches' = req.list
    /\ storageQ' = Tail(storageQ)
    /\ lastWriter' = "ps"
    /\ lastAppend' = req.list
    /\ ev' = EvP("psSaveOk", req.place)
    /\ UNCHANGED <<searchHistory, nWrites, ioFailed>>

\* saveSearchHistory after its await
MapSaveWritten(req) ==
    /\ slot' = req.val
    /\ searchHistory' = req.list
    /\ storageQ' = Tail(storageQ)
    /\ lastWriter' = "map"
    /\ ev' = EvP("mapSaveOk", req.place)
    /\ UNCHANGED <<recentSearches, nWrites, lastAppend, ioFailed>>

storageFrame ==
    /\ UNCHANGED <<searchText, predictions, loading, isInputFocused, userLocation>>
    /\ UNCHANGED ioVars
    /\ UNCHANGED <<selectedPlace, region, detailReqs, mapLocation>>
    /\ UNCHANGED <<nextReq, lastInput, superseded, discarded, sinceEdit, rapidEdit,
                   callsSinceEdit, locSinceEdit,
                   nSelects, nCallbacks, lastSelected>>

\* the request at the head resolves
StorageOk ==
    /\ Len(storageQ) > 0
    /\ LET req == Head(storageQ)
       IN  CASE req.op = "get" /\ req.by = "psLoad"  -> PsLoadDone(slot)
             [] req.op = "get" /\ req.by = "mapLoad" -> MapLoadDone(slot)
             [] req.op = "get" /\ req.by = "psSave"  -> PsSaveRead(slot, req.place)
             [] req.op = "set" /\ req.by = "psSave"  -> PsSaveWritten(req)
             [] req.op = "set" /\ req.by = "mapSave" -> MapSaveWritten(req)
    /\ storageFrame

\* a saveToRecentSearches that sets its list although the write failed
StorageFailOptimistic ==
    /\ Len(storageQ) > 0
    /\ LET req == Head(storageQ)
       IN  /\ ev' = EvP(req.by \o (IF req.op = "get" THEN "ReadFail" ELSE "WriteFail"), req.place)
           /\ ioFailed' = IF req.op = "set" \/ ioFailed = "write" THEN "write" ELSE "read"
    /\ storageQ' = Tail(storageQ)
    /\ recentSearches' =
         IF Head(storageQ).op = "set" /\ Head(storageQ).by = "psSave"
           THEN Head(storageQ).list ELSE recentSearches
    /\ UNCHANGED <<searchHistory, slot, nWrites, lastWriter, lastAppend>>
    /\ storageFrame

\* the request at the head rejects: the awaiting function's catch logs it
StorageFail ==
    /\ Len(storageQ) > 0
    /\ LET req == Head(storageQ)
       IN  /\ ev' = EvP(req.by \o (IF req.op = "get" THEN "ReadFail" ELSE "WriteFail"), req.place)
           /\ ioFailed' = IF req.op = "set" \/ ioFailed = "write" THEN "write" ELSE "read"
    /\ storageQ' = Tail(storageQ)
    /\ UNCHANGED <<recentSearches, searchHistory, slot, nWrites, lastWriter, lastAppend>>
    /\ storageFrame

----------------------------------------------------------------------------
(* MapScreen: place details and device location *)

\* axios.get resolves: MapScreen.handlePlaceSelect after its await
DetailSucceed(d) ==
    /\ detailReqs' = detailReqs \ {d}
    /\ selectedPlace' = [place |-> d.place, loc |-> LocOf(d.place.place_id)]
    /\ region' = LocOf(d.place.place_id)
    /\ ev' = EvP("detailOk", d.place)
    /\ UNCHANGED <<psVars, ioVars, stVars, histVars>>
    /\ UNCHANGED <<searchHistory, mapLocation>>

\* axios.get rejects, or the body has no geometry
DetailFail(d) ==
    /\ detailReqs' = detailReqs \ {d}
    /\ ev' = EvP("detailFail", d.place)
    /\ UNCHANGED <<psVars, ioVars, stVars, histVars>>
    /\ UNCHANGED <<selectedPlace, searchHistory, region, mapLocation>>

DetailResolve == \E d \in detailReqs : DetailSucceed(d)

DetailReject == \E d \in detailReqs : DetailFail(d)

\* MapScreen.getUserLocation obtains a position
MapLocationFix ==
    /\ mapLocation = "pending"
    /\ mapLocation' = "done"
    /\ region' = RegionUser
    /\ ev' = Ev("step")
    /\ UNCHANGED <<psVars, ioVars, stVars, histVars>>
    /\ UNCHANGED <<selectedPlace, searchHistory, detailReqs>>

\* permission denied, or the position request throws
MapLocationNone ==
    /\ mapLocation = "pending"
    /\ mapLocation' = "done"
    /\ ev' = Ev("step")
    /\ UNCHANGED <<psVars, ioVars, stVars, histVars>>
    /\ UNCHANGED <<selectedPlace, searchHistory, region, detailReqs>>

----------------------------------------------------------------------------
(* Specification *)

Next ==
    \/ TextChange
    \/ Tick
    \/ DebounceFire
    \/ LookupResolve
    \/ LookupReject
    \/ PsLocationFix
    \/ PsLocationNone
    \/ Focus
    \/ Blur
    \/ BlurFire
    \/ handleClear
    \/ Select
    \/ StorageOk
    \/ StorageFail
    \/ DetailResolve
    \/ DetailReject
    \/ MapLocationFix
    \/ MapLocationNone

Spec == Init /\ [][Next]_vars

----------------------------------------------------------------------------
(* The query pipeline on its own: the input has the focus, the two loads   *)
(* of the mount and the mount's own debounce timer are done, and the user  *)
(* types while timers expire and lookups resolve in any order.             *)

InitQuery ==
    /\ searchText = <<>>
    /\ predictions = <<>>
    /\ loading = FALSE
    /\ recentSearches = <<>>
    /\ isInputFocused = TRUE
    /\ userLocation = NoLoc
    /\ inputFocused = TRUE
    /\ debounceTimers = {}
    /\ blurTimers = {}
    /\ lookups = {}
    /\ psLocation = "pending"
    /\ slot = NullItem
    /\ storageQ = <<>>
    /\ selectedPlace = [place |-> NoPlace, loc |-> NoLoc]
    /\ searchHistory = <<>>
    /\ region = RegionDefault
    /\ detailReqs = {}
    /\ mapLocation = "done"
    /\ nextReq = 1
    /\ lastInput = <<>>
    /\ superseded = {}
    /\ discarded = {}
    /\ sinceEdit = DebounceMs
    /\ rapidEdit = FALSE
    /\ callsSinceEdit = 0
    /\ locSinceEdit = FALSE
    /\ nSelects = 0
    /\ nCallbacks = 0
    /\ lastSelected = NoPlace
    /\ nWrites = 0
    /\ lastWriter = "none"
    /\ lastAppend = <<>>
    /\ ioFailed = "none"
    /\ ev = Ev("psLoadOk")

NextQuery ==
    \/ TextChange
    \/ Tick
    \/ DebounceFire
    \/ LookupResolve
    \/ LookupReject
    \/ PsLocationFix
    \/ PsLocationNone

SpecQuery == InitQuery /\ [][NextQuery]_vars

----------------------------------------------------------------------------
(* The history on its own: the user has focused the input and typed "aa",  *)
(* the lookup for it is in flight, and the loads of the mount and of the   *)
(* focus are still queued; from there the user selects offered places and  *)
(* focuses the input again while AsyncStorage serves or fails requests.    *)

InitHistory ==
    /\ searchText = <<"a", "a">>
    /\ predictions = <<>>
    /\ loading = TRUE
    /\ recentSearches = <<>>
    /\ isInputFocused = TRUE
    /\ userLocation = NoLoc
    /\ inputFocused = TRUE
    /\ debounceTimers = {}
    /\ blurTimers = {}
    /\ lookups = {1}
    /\ psLocation = "done"
    /\ slot \in InitialSlots
    /\ storageQ = <<GetReq("psLoad", NoPlace), GetReq("mapLoad", NoPlace),
                    GetReq("psLoad", NoPlace)>>
    /\ selectedPlace = [place |-> NoPlace, loc |-> NoLoc]
    /\ searchHistory = <<>>
    /\ region = RegionDefault
    /\ detailReqs = {}
    /\ mapLocation = "done"
    /\ nextReq = 2
    /\ lastInput = <<"a", "a">>
    /\ superseded = {}
    /\ discarded = {}
    /\ sinceEdit = DebounceMs
    /\ rapidEdit = TRUE
    /\ callsSinceEdit = 1
    /\ locSinceEdit = FALSE
    /\ nSelects = 0
    /\ nCallbacks = 0
    /\ lastSelected = NoPlace
    /\ nWrites = 0
    /\ lastWriter = "none"
    /\ lastAppend = <<>>
    /\ ioFailed = "none"
    /\ ev = Ev("step")

NextHistory ==
    \/ LookupResolve
    \/ LookupReject
    \/ Focus
    \/ Select
    \/ StorageOk
    \/ StorageFail

SpecHistory == InitHistory /\ [][NextHistory]_vars

----------------------------------------------------------------------------
(* Focus on its own: both loads of the mount are served, the mount's       *)
(* debounce timer has fired and both location requests are over, the user  *)
(* has focused the input, the load of that focus is served, and the user   *)
(* may have typed a first character; from there the user leaves and        *)
(* focuses the input and types while the blur timers expire and the loads  *)
(* of a focus are served.                                                  *)

\* the first character typed, which may be a capital
FirstChars == {"A", "B", "c"}

FirstTexts == {<<>>} \cup {<<c>> : c \in FirstChars}

InitFocus ==
    /\ searchText \in FirstTexts
    /\ predictions = <<>>
    /\ loading = FALSE
    /\ slot \in InitialSlots
    /\ recentSearches = Loaded(slot)
    /\ isInputFocused = TRUE
    /\ userLocation = NoLoc
    /\ inputFocused = TRUE
    /\ debounceTimers = IF Len(searchText) = 0 THEN {} ELSE {NewDebounceTimer(searchText)}
    /\ blurTimers = {}
    /\ lookups = {}
    /\ psLocation = "done"
    /\ storageQ = <<>>
    /\ selectedPlace = [place |-> NoPlace, loc |-> NoLoc]
    /\ searchHistory = Loaded(slot)
    /\ region = RegionDefault
    /\ detailReqs = {}
    /\ mapLocation = "done"
    /\ nextReq = 1
    /\ lastInput = <<>>
    /\ superseded = {}
    /\ discarded = {}
    /\ sinceEdit = IF Len(searchText) = 0 THEN DebounceMs ELSE 0
    /\ rapidEdit = FALSE
    /\ callsSinceEdit = 0
    /\ locSinceEdit = FALSE
    /\ nSelects = 0
    /\ nCallbacks = 0
    /\ lastSelected = NoPlace
    /\ nWrites = 0
    /\ lastWriter = "none"
    /\ lastAppend = <<>>
    /\ ioFailed = "none"
    /\ ev = IF Len(searchText) = 0 THEN Ev("psLoadOk") ELSE Ev("step")

NextFocus ==
    \/ Focus
    \/ Blur
    \/ BlurFire
    \/ Tick
    \/ TextChange
    \/ StorageOk

SpecFocus == InitFocus /\ [][NextFocus]_vars

----------------------------------------------------------------------------
(* The map on its own: the history is loaded and shown under the focused   *)
(* input, the location request of MapScreen is pending; from there the     *)
(* user selects recent searches and focuses the input again while detail   *)
(* requests resolve in any order and AsyncStorage serves its queue.        *)

InitMap ==
    /\ searchText = <<>>
    /\ predictions = <<>>
    /\ loading = FALSE
    /\ slot \in {Stringify(OneList), Stringify(FullList)}
    /\ recentSearches = Loaded(slot)
    /\ isInputFocused = TRUE
    /\ userLocation = NoLoc
    /\ inputFocused = TRUE
    /\ debounceTimers = {}
    /\ blurTimers = {}
    /\ lookups = {}
    /\ psLocation = "done"
    /\ storageQ = <<>>
    /\ selectedPlace = [place |-> NoPlace, loc |-> NoLoc]
    /\ searchHistory = Loaded(slot)
    /\ region = RegionDefault
    /\ detailReqs = {}
    /\ mapLocation = "pending"
    /\ nextReq = 1
    /\ lastInput = <<>>
    /\ superseded = {}
    /\ discarded = {}
    /\ sinceEdit = DebounceMs
    /\ rapidEdit = FALSE
    /\ callsSinceEdit = 0
    /\ locSinceEdit = FALSE
    /\ nSelects = 0
    /\ nCallbacks = 0
    /\ lastSelected = NoPlace
    /\ nWrites = 0
    /\ lastWriter = "none"
    /\ lastAppend = <<>>
    /\ ioFailed = "none"
    /\ ev = Ev("psLoadOk")

NextMap ==
    \/ Focus
    \/ Select
    \/ StorageOk
    \/ DetailResolve
    \/ DetailReject
    \/ MapLocationFix
    \/ MapLocationNone

SpecMap == InitMap /\ [][NextMap]_vars

----------------------------------------------------------------------------
(* Clearing while a lookup is in flight: from the state the history starts *)
(* in, the user edits, clears and focuses within one debounce window while *)
(* the lookup for "aa" resolves at any moment and the loads are served.    *)

NextClear ==
    \/ TextChange
    \/ handleClear
    \/ Focus
    \/ LookupResolve
    \/ LookupReject
    \/ StorageOk

SpecClear == InitHistory /\ [][NextClear]_vars

----------------------------------------------------------------------------
(* Properties of the query pipeline, checked under SpecQuery *)

\* C1: a response to a superseded lookup is never written to the suggestion
\* list: whatever the order in which the lookups complete, once a lookup for
\* another text has been issued the response to the earlier lookup is not put
\* in the list.
C1_SupersededNeverShown ==
    [][ev'.kind = "lookupOk" => (lookups \ lookups') \cap superseded = {}]_vars

\* C2 as stated: once the debounce window after the last of a run of edits
\* has elapsed, exactly one lookup has been issued for it, carrying the final
\* text, and no earlier timer is left pending.
C2_ExactlyOneCall ==
    /\ Cardinality(debounceTimers) <= 1
    /\ callsSinceEdit > 0 => lastInput = searchText
    /\ (Len(searchText) > 0 /\ debounceTimers = {}) => callsSinceEdit = 1

\* C2 as amended: every edit cancels the pending debounce timer, so at most
\* one timer is pending and it holds the current text; no lookup is issued
\* before 300 ms have passed since the last edit; once the timer of the last
\* edit has fired, a lookup has been issued if and only if the final text has
\* at least 2 characters, every lookup issued since the last edit carries the
\* final text, and there is one of them, or two when the device location
\* arrived after the last edit and re-armed the timer.
C2_Debounce ==
    /\ Cardinality(debounceTimers) <= 1
    /\ \A t \in debounceTimers : t.text = searchText
    /\ sinceEdit < DebounceMs => callsSinceEdit = 0
    /\ callsSinceEdit > 0 => (lastInput = searchText /\ Len(searchText) >= MinQueryLen)
    /\ callsSinceEdit <= (IF locSinceEdit THEN 2 ELSE 1)
    /\ (debounceTimers = {} /\ Len(searchText) >= MinQueryLen) => callsSinceEdit >= 1

\* a run of rapid edits has ended, its timer has fired, and the
\* one lookup issued for it carries the final text
C2_Witness ==
    /\ rapidEdit
    /\ debounceTimers = {}
    /\ callsSinceEdit = 1
    /\ nextReq - 1 \in lookups
    /\ lastInput = searchText

\* C3: while the trimmed input has fewer than 2 characters the suggestion
\* list is empty, and no lookup carries a text whose trimmed length is below 2.
C3_ShortInputNoLookup ==
    /\ Len(Trim(searchText)) < MinQueryLen => predictions = <<>>
    /\ nextReq > 1 => Len(Trim(lastInput)) >= MinQueryLen

\* C9: a failed lookup sets the loading flag to false and changes nothing
\* else of the query state: text, suggestion list and focus flag are as they
\* were before the failure was handled.
C9_FailureKeepsList ==
    [][ev'.kind = "lookupFail" =>
        /\ loading' = FALSE
        /\ predictions' = predictions
        /\ searchText' = searchText
        /\ isInputFocused' = isInputFocused]_vars

\* a lookup has just failed while suggestions of an earlier lookup are shown
C9_Witness == ev.kind = "lookupFail" /\ Len(predictions) > 0 /\ ~loading

----------------------------------------------------------------------------
(* Properties of the history, checked under SpecHistory *)

HasId(list, id) == \E i \in 1..Len(list) : list[i].place_id = id

\* C4: no history list holds a place id twice: not the persisted list, not
\* the list of PlacesSearch, not the list of MapScreen.
C4_NoDuplicateIds ==
    /\ NoDuplicates(recentSearches)
    /\ NoDuplicates(searchHistory)
    /\ NoDuplicates(slot.val)

\* C5: no history list is longer than 10: not the persisted list, not the
\* list of PlacesSearch, not the list of MapScreen, nor a list on its way to
\* the slot.
C5_AtMostTen ==
    /\ Len(recentSearches) <= HistoryCap
    /\ Len(searchHistory) <= HistoryCap
    /\ Len(slot.val) <= HistoryCap
    /\ \A i \in 1..Len(storageQ) : Len(storageQ[i].val.val) <= HistoryCap

\* an eleventh place was selected on a full history and both components have
\* saved their list
C5_Witness ==
    /\ ev.kind = "psSaveOk"
    /\ ev.place.place_id = NumPlaces
    /\ Len(recentSearches) = HistoryCap
    /\ Len(searchHistory) = HistoryCap
    /\ recentSearches[1].place_id = NumPlaces

\* the list new is the list old with place p moved to the front
MovedToFront(old, new, p) ==
    /\ Len(new) = Len(old)
    /\ Head(new) = p
    /\ Tail(new) = WithoutId(old, p.place_id)

\* C6: selecting a place a history list already holds leaves the length of
\* that list unchanged, puts the place first and keeps the order of the
\* others, for the list of PlacesSearch and for the list of MapScreen.
C6_MoveToFront ==
    [][/\ (ev'.kind = "psSaveOk" /\ HasId(recentSearches, ev'.place.place_id))
            => MovedToFront(recentSearches, recentSearches', ev'.place)
       /\ (ev'.kind = "mapSaveOk" /\ HasId(searchHistory, ev'.place.place_id))
            => MovedToFront(searchHistory, searchHistory', ev'.place)]_vars

\* C7: every selection invokes the selection callback once and writes the
\* 'searchHistory' slot once.
C7_OneCallbackOneWrite ==
    /\ nCallbacks = nSelects
    /\ nWrites <= nSelects
    /\ storageQ = <<>> => nWrites = nSelects

\* C8: a load served after an append has completed, with no other write to
\* the slot in between, yields the list that append produced; for an append
\* to an empty history that is the list of the one appended record.
C8_AppendLoadRoundTrip ==
    (ev.kind = "psLoadOk" /\ lastWriter = "ps") => recentSearches = lastAppend

\* a load has just returned the one-record list an append to the empty
\* history produced
C8_Witness ==
    /\ ev.kind = "psLoadOk"
    /\ lastWriter = "ps"
    /\ Len(lastAppend) = 1
    /\ recentSearches = lastAppend

\* C10: when the write of a selection fails, the callback has fired and the
\* list of PlacesSearch has the selected place in front all the same.
C10_OptimisticUpdate ==
    ev.kind = "psSaveWriteFail" =>
        /\ nCallbacks = nSelects
        /\ Len(recentSearches) > 0
        /\ Head(recentSearches) = ev.place

----------------------------------------------------------------------------
(* Properties of clearing, checked under SpecClear *)

\* C11: the clear action empties the text and the suggestion list and sets
\* the focus flag to false; it leaves the history list of PlacesSearch and
\* the persisted slot as they were and issues no storage request.
C11_ClearResets ==
    [][ev'.kind = "clear" =>
        /\ searchText' = <<>>
        /\ predictions' = <<>>
        /\ isInputFocused' = FALSE
        /\ recentSearches' = recentSearches
        /\ slot' = slot
        /\ storageQ' = storageQ
        /\ nWrites' = nWrites]_vars

\* a clear has just been made with a history loaded from the slot
C11_Witness ==
    /\ ev.kind = "clear"
    /\ Len(recentSearches) > 0
    /\ slot = Stringify(recentSearches)
    /\ searchText = <<>>
    /\ predictions = <<>>
    /\ ~isInputFocused

\* C13: a selection or a clear empties the suggestion list, and the list
\* stays empty when a lookup that was issued before the selection or clear
\* completes afterwards.
C13_DiscardedStaysEmpty ==
    [][/\ ev'.kind \in {"select", "clear"} => predictions' = <<>>
       /\ (ev'.kind = "lookupOk" /\ (lookups \ lookups') \cap discarded # {})
            => predictions' = <<>>]_vars

\* every place of the list old has its id in the list new
KeepsIds(old, new) == \A i \in 1..Len(old) : HasId(new, old[i].place_id)

\* C14: no write replaces the persisted list by a list computed from an older
\* value: while no storage request has failed, a write to a slot that holds
\* fewer than 10 records keeps every record the slot held. Checked under
\* SpecHistory.
C14_NoLostUpdate ==
    [][(/\ ev'.kind \in {"psSaveOk", "mapSaveOk"}
        /\ ioFailed' = "none"
        /\ Len(slot.val) < HistoryCap) => KeepsIds(slot.val, slot'.val)]_vars

\* C15: when the detail request of a selection fails, the marker is where it
\* was before that selection, and there is no marker when there was none.
\* Checked under SpecMap.
C15_FailureKeepsMarker ==
    [][ev'.kind = "detailFail" =>
        \A d \in detailReqs \ detailReqs' : Marker' = d.marker]_vars

\* C18: when the last pending detail request resolves, the selected place
\* and the region are those of the place selected last, in whatever order the
\* requests completed. Checked under SpecMap.
C18_LastSelectionShown ==
    [][(ev'.kind = "detailOk" /\ detailReqs' = {}) =>
        /\ selectedPlace'.place = lastSelected'
        /\ region' = LocOf(lastSelected'.place_id)]_vars

\* the same text but for the case of its letters
UpperChar(c) ==
    CASE c = "a" -> "A"
      [] c = "b" -> "B"
      [] c = "c" -> "C"
      [] OTHER -> c

SameIgnoringCase(s, t) ==
    /\ Len(s) = Len(t)
    /\ \A i \in 1..Len(s) : UpperChar(s[i]) = UpperChar(t[i])

ContainsIgnoringCase(label, text) ==
    \E i \in 1..(Len(label) + 1) :
        /\ i + Len(text) - 1 <= Len(label)
        /\ SameIgnoringCase(SubSeq(label, i, i + Len(text) - 1), text)

\* C16: the visible recent searches are the entries of the history, in the
\* order of the history, whose primary or secondary label contains the input
\* text whatever the case of the letters; for an empty text they are the
\* whole history. Checked under SpecFocus.
C16_VisibleHistory ==
    /\ filteredRecentSearches =
         SelectSeq(recentSearches, LAMBDA p :
            \/ ContainsIgnoringCase(p.main_text, searchText)
            \/ ContainsIgnoringCase(p.secondary_text, searchText))
    /\ Len(searchText) = 0 => filteredRecentSearches = recentSearches

\* a text typed with a capital shows a part of the history, not all of it
C16_Witness ==
    /\ Len(searchText) > 0
    /\ searchText = <<"B", "a">>
    /\ Len(filteredRecentSearches) > 0
    /\ Len(filteredRecentSearches) < Len(recentSearches)

\* C20: the callback of a blur timer does not hide the dropdown of an input
\* that has the focus again: when the timer fires while the input is
\* focused, the focus flag is true afterwards. Checked under SpecFocus.
C20_BlurTimerSparesFocus ==
    [][(ev'.kind = "blurFire" /\ inputFocused') => isInputFocused']_vars

\* C17: a load that finds the slot absent or unparseable leaves PlacesSearch
\* with the empty history list, at mount and on a later focus, and the step
\* is taken like any other. Checked under SpecHistory.
C17_LoadOfNothingIsEmpty ==
    [][(ev'.kind = "psLoadOk" /\ (~Truthy(slot) \/ ParseThrows(slot)))
        => recentSearches' = <<>>]_vars

\* a load served after a selection has found a slot that does not parse
C17_Witness ==
    /\ ev.kind = "psLoadOk"
    /\ Truthy(slot) /\ ParseThrows(slot)
    /\ nSelects > 0
    /\ recentSearches = <<>>

C12_LoadingWhileOutstanding == lookups # {} => loading

====
